---- MODULE Spec2Model ----
(***************************************************************************)
(* The hierarchical stores of GTG/core: BaseStore (base_store.py) and its  *)
(* three specialisations TaskStore (tasks2.py), TagStore (tags2.py) and    *)
(* SavedSearchStore (saved_searches.py).                                   *)
(*                                                                         *)
(* An entity object is identified with its id (a uuid).  `children` and    *)
(* `parent` are the fields of the entity objects, `data` and `lookup` the  *)
(* fields of the store.  Objects that left the store keep their fields, as *)
(* Python objects do; an object constructed anew under an id takes the     *)
(* slot of the discarded object of that id.                                *)
(***************************************************************************)
EXTENDS Integers, Sequences, FiniteSets, TLC

\* Number of distinct identifiers the model draws from.
MaxId == 3

\* Number of calls made on the store in one run.
MaxCalls == 4

Ids == 1 .. MaxId

\* Python's None (also the falsy "no parent given" argument).
None == 0

Kinds == {"task", "tag", "search"}

\* Strings are sequences of characters.  The names the callers pass: a
\* plain name, and the same name written with the '@' prefix.
NoName == <<>>
Names == {<<"f">>, <<"@", "f">>}

\* generate_color: the largest channel value (65535 in the code) and the
\* number of calls followed
MAX_VALUE == 1
MaxGen == 3

\* color = None, and a color string
NoColor == <<>>
Color(red, green, blue) == <<red, green, blue>>
\* Color.to_string(): '#' and the three channels, fixed width each
to_string(c) == <<"#", c[1], c[2], c[3]>>

\* a task tree is built by at most MaxTreeCalls store calls and its tasks
\* receive at most MaxTaskCalls calls (toggle_status, dismiss)
MaxTreeCalls == 3
MaxTaskCalls == 2
\* the days a due date is taken from
MaxDay == 2
\* the due dates assigned in a tree built beforehand
MaxDueCalls == 3

\* the values add_tag is called with: Tag2 objects, equal when their fields
\* are (Tag2 is a dataclass), and a value that is not a Tag2
Tag2Values == {"g", "h"}
NotATag == "str"

VARIABLES
    kind,       \* which concrete store this is
    data,       \* BaseStore.data: the sequence of root entities
    lookup,     \* BaseStore.lookup: dict id -> entity
    order,      \* the keys of lookup in insertion order, as dict iteration gives them
    loaded,     \* the fresh store that from_xml(to_xml()) filled, after a reload
    used_colors,    \* TagStore.used_colors
    color,          \* generate_color: its local variable color
    gen,            \* generate_color: "idle" between calls, "loop" inside one
    colors_before,  \* used_colors when the running or last call began
    generated,      \* the values generate_color returned, in call order
    status,         \* Task2.status of each task
    date_closed,    \* Task2.date_closed of each task
    date_due,       \* Task2._date_due of each task
    lastvalue,      \* the value the last call assigned to due_date
    lastfz,         \* whether fuzzy dates took part in < during the last call
    tags,           \* Task2.tags of each task
    lasttag,        \* the argument of the last add_tag call
    tpre,           \* the task fields before the last call
    tcalls,         \* number of calls made on tasks
    children,   \* entity.children, for every entity object
    parent,     \* Task2.parent back-reference (None for tags and searches)
    name,       \* Tag2.name, SavedSearch.name
    used,       \* identifiers that were ever registered in the store
    calls,      \* number of calls made on the store
    newed,      \* entities returned by new and still registered since
    pre,        \* the store as it was when the last call started
    last,       \* the last call: operation, arguments, outcome
    lastname,   \* the name argument of the last call, if it took one
    rt          \* the store before a parent(i, p) call whose unparent(i, p) follows

vars == <<kind, data, lookup, order, loaded, used_colors, color, gen, colors_before,
          generated, status, date_closed, date_due, lastvalue, lastfz, tags, lasttag,
          tpre, tcalls, children, parent, name, used, calls, newed, pre,
          last, lastname, rt>>

----------------------------------------------------------------------------
\* Python list helpers

\* x in seq
InSeq(seq, x) == \E j \in 1 .. Len(seq) : seq[j] = x

\* index of the first occurrence of x in seq (x must occur)
FirstIndex(seq, x) == CHOOSE j \in 1 .. Len(seq) :
                          seq[j] = x /\ \A k \in 1 .. (j - 1) : seq[k] # x

\* list.remove(x): drops the first occurrence of x (the caller checks x occurs)
ListRemove(seq, x) ==
    LET j == FirstIndex(seq, x)
    IN  SubSeq(seq, 1, j - 1) \o SubSeq(seq, j + 1, Len(seq))

\* number of occurrences of x in seq
Occurrences(seq, x) == Cardinality({j \in 1 .. Len(seq) : seq[j] = x})

\* del d[k] for a key that is present
DictDel(d, k) == [x \in (DOMAIN d) \ {k} |-> d[x]]

\* d[k] = v
DictSet(d, k, v) == [x \in (DOMAIN d) \cup {k} |-> IF x = k THEN v ELSE d[x]]

\* the store part of the state, as one value
Store == [data |-> data, lookup |-> lookup, children |-> children, parent |-> parent,
          name |-> name]

Range(seq) == {seq[j] : j \in 1 .. Len(seq)}

Ok(s) == [s |-> s, err |-> "none"]
Raise(s, e) == [s |-> s, err |-> e]

----------------------------------------------------------------------------
\* Entity constructors: Task2.__init__, Tag2 and SavedSearch dataclasses.
\* A new object has no children and no parent.
Construct(s, id) ==
    [s EXCEPT !.children[id] = <<>>, !.parent[id] = None]

\* A constructed object that did not enter the store is dropped: the slot
\* shows the object that held the id before.  Everything else the failed
\* call did to the store stays.
Discard(r, s, id) ==
    IF r.err = "none" THEN r
    ELSE [r EXCEPT !.s.children[id] = s.children[id], !.s.parent[id] = s.parent[id],
                   !.s.name[id] = s.name[id]]

----------------------------------------------------------------------------
\* add with the registration moved before the parent is looked up: a
\* refused add leaves the item registered
BaseStore_add_registers_first(s, item, parent_id) ==
    IF item \in DOMAIN s.lookup
    THEN Raise(s, "KeyError")
    ELSE LET s1 == [s EXCEPT !.lookup = DictSet(@, item, item)]
         IN  IF parent_id # None
             THEN IF parent_id \notin DOMAIN s.lookup
                  THEN Raise(s1, "KeyError")
                  ELSE Ok([s1 EXCEPT !.children[s.lookup[parent_id]] = Append(@, item)])
             ELSE Ok([s1 EXCEPT !.data = Append(@, item)])

\* BaseStore.add
BaseStore_add(s, item, parent_id) ==
    IF item \in DOMAIN s.lookup
    THEN Raise(s, "KeyError")
    ELSE IF parent_id # None
         THEN IF parent_id \notin DOMAIN s.lookup
              THEN Raise(s, "KeyError")
              ELSE LET p == s.lookup[parent_id]
                   IN  Ok([s EXCEPT !.children[p] = Append(@, item),
                                    !.lookup = DictSet(@, item, item)])
         ELSE Ok([s EXCEPT !.data = Append(@, item),
                           !.lookup = DictSet(@, item, item)])

----------------------------------------------------------------------------
\* BaseStore.remove

\* for x in seq[j..]: del lookup[x.id]   (KeyError on a key that is absent)
RECURSIVE DelEach(_, _, _)
DelEach(lk, seq, j) ==
    IF j > Len(seq) THEN [lookup |-> lk, err |-> "none"]
    ELSE IF seq[j] \notin DOMAIN lk THEN [lookup |-> lk, err |-> "KeyError"]
    ELSE DelEach(DictDel(lk, seq[j]), seq, j + 1)

\* The body run once the item is found in a container: lines 91-97 for a
\* nested item, lines 109-115 for a root.  `detached` is the store with the
\* item already taken out of its container.
delete_found(detached, item) ==
    IF item \notin DOMAIN detached.lookup
    THEN Raise(detached, "KeyError")
    ELSE LET s2 == [detached EXCEPT !.lookup = DictDel(@, item)]
             d  == DelEach(s2.lookup, s2.children[item], 1)
         IN  [s |-> [s2 EXCEPT !.lookup = d.lookup], err |-> d.err]

\* recursive_delete(parent), resumed at index j of parent.children.  `fuel`
\* is the recursion depth left: a descent deeper than the number of entities
\* runs through a cycle, which Python ends with a RecursionError.
RECURSIVE recursive_delete(_, _, _, _, _)
recursive_delete(st, item_id, p, j, fuel) ==
    IF j > Len(st.children[p]) THEN Ok(st)
    ELSE LET child == st.children[p][j]
         IN  IF child = item_id
             THEN delete_found([st EXCEPT !.children[p] = ListRemove(@, child)], child)
             ELSE IF st.children[child] # <<>>
                  THEN IF fuel = 0
                       THEN Raise(st, "RecursionError")
                       ELSE LET r == recursive_delete(st, item_id, child, 1, fuel - 1)
                            IN  IF r.err # "none" THEN r
                                ELSE recursive_delete(r.s, item_id, p, j + 1, fuel)
                  ELSE recursive_delete(st, item_id, p, j + 1, fuel)

\* the second loop of remove: for item in self.data: if item.children: ...
RECURSIVE remove_nested(_, _, _)
remove_nested(st, item_id, j) ==
    IF j > Len(st.data) THEN Ok(st)
    ELSE LET item == st.data[j]
         IN  IF st.children[item] # <<>>
             THEN LET r == recursive_delete(st, item_id, item, 1, MaxId)
                  IN  IF r.err # "none" THEN r ELSE remove_nested(r.s, item_id, j + 1)
             ELSE remove_nested(st, item_id, j + 1)

BaseStore_remove(s, item_id) ==
    IF item_id \notin DOMAIN s.lookup
    THEN Raise(s, "KeyError")
    ELSE IF InSeq(s.data, item_id)
         THEN delete_found([s EXCEPT !.data = ListRemove(@, item_id)], item_id)
         ELSE remove_nested(s, item_id, 1)

----------------------------------------------------------------------------
\* BaseStore.parent: list.remove raises ValueError when the item is not a
\* root; only KeyError is named by the except clauses, and both re-raise.
BaseStore_parent(s, item_id, parent_id) ==
    IF item_id \notin DOMAIN s.lookup
    THEN Raise(s, "KeyError")
    ELSE LET item == s.lookup[item_id]
         IN  IF ~InSeq(s.data, item)
             THEN Raise(s, "ValueError")
             ELSE LET s1 == [s EXCEPT !.data = ListRemove(@, item)]
                  IN  IF parent_id \notin DOMAIN s1.lookup
                      THEN Raise(s1, "KeyError")
                      ELSE Ok([s1 EXCEPT !.children[s1.lookup[parent_id]] = Append(@, item)])

\* TaskStore.parent: the same, and sets the back-reference
TaskStore_parent(s, item_id, parent_id) ==
    IF item_id \notin DOMAIN s.lookup
    THEN Raise(s, "KeyError")
    ELSE LET item == s.lookup[item_id]
         IN  IF ~InSeq(s.data, item)
             THEN Raise(s, "ValueError")
             ELSE LET s1 == [s EXCEPT !.data = ListRemove(@, item)]
                  IN  IF parent_id \notin DOMAIN s1.lookup
                      THEN Raise(s1, "KeyError")
                      ELSE LET s2 == [s1 EXCEPT !.children[s1.lookup[parent_id]] = Append(@, item)]
                           IN  Ok([s2 EXCEPT !.parent[item] = s2.lookup[parent_id]])

\* unparent with the append to the roots done before the child is searched
BaseStore_unparent_appends_first(s, item_id, parent_id) ==
    IF parent_id \notin DOMAIN s.lookup
    THEN Raise(s, "KeyError")
    ELSE LET p  == s.lookup[parent_id]
             s1 == [s EXCEPT !.data = Append(@, item_id)]
         IN  IF ~InSeq(s.children[p], item_id)
             THEN Raise(s1, "KeyError")
             ELSE Ok([s1 EXCEPT !.children[p] = ListRemove(@, item_id)])

\* BaseStore.unparent
BaseStore_unparent(s, item_id, parent_id) ==
    IF parent_id \notin DOMAIN s.lookup
    THEN Raise(s, "KeyError")
    ELSE LET p == s.lookup[parent_id]
         IN  IF ~InSeq(s.children[p], item_id)
             THEN Raise(s, "KeyError")
             ELSE LET child == item_id
                      s1 == [s EXCEPT !.data = Append(@, child)]
                  IN  Ok([s1 EXCEPT !.children[s1.lookup[parent_id]] = ListRemove(@, child)])

\* unparent that puts the child back at the head of the roots
TaskStore_unparent_to_front(s, item_id, parent_id) ==
    IF parent_id \notin DOMAIN s.lookup
    THEN Raise(s, "KeyError")
    ELSE LET p == s.lookup[parent_id]
         IN  IF ~InSeq(s.children[p], item_id)
             THEN Raise(s, "KeyError")
             ELSE Ok([s EXCEPT !.parent[item_id] = None,
                               !.data = <<item_id>> \o @,
                               !.children[p] = ListRemove(@, item_id)])

\* TaskStore.unparent: the same, and clears the back-reference first
TaskStore_unparent(s, item_id, parent_id) ==
    IF parent_id \notin DOMAIN s.lookup
    THEN Raise(s, "KeyError")
    ELSE LET p == s.lookup[parent_id]
         IN  IF ~InSeq(s.children[p], item_id)
             THEN Raise(s, "KeyError")
             ELSE LET child == item_id
                      s1 == [s EXCEPT !.parent[child] = None]
                      s2 == [s1 EXCEPT !.data = Append(@, child)]
                  IN  Ok([s2 EXCEPT !.children[s2.lookup[parent_id]] = ListRemove(@, child)])

\* BaseStore.count
count(s, root_only) == IF root_only THEN Len(s.data) ELSE Cardinality(DOMAIN s.lookup)

\* get: BaseStore.get is declared without self, so the bound call
\* store.get(key) raises TypeError; SavedSearchStore inherits it.
\* TaskStore.get and TagStore.get return self.lookup[key].
BaseStore_get(s, key) == [ret |-> None, err |-> "TypeError"]

TaskStore_get(s, key) ==
    IF key \in DOMAIN s.lookup
    THEN [ret |-> s.lookup[key], err |-> "none"]
    ELSE [ret |-> None, err |-> "KeyError"]

TagStore_get(s, key) ==
    IF key \in DOMAIN s.lookup
    THEN [ret |-> s.lookup[key], err |-> "none"]
    ELSE [ret |-> None, err |-> "KeyError"]

----------------------------------------------------------------------------
\* new: the three factories.  tid is the value uuid4() returns.

TaskStore_new(s, tid, parent_id) ==
    LET task == tid
        s0   == Construct(s, tid)
    IN  IF parent_id # None
        THEN Discard(BaseStore_add(s0, task, parent_id), s, tid)
        ELSE Ok([s0 EXCEPT !.data = Append(@, task),
                           !.lookup = DictSet(@, tid, task)])

\* name.startswith('@')
startswith_at(nm) == Len(nm) >= 1 /\ nm[1] = "@"

\* name if not name.startswith('@') else name[1:]
strip_at(nm) == IF ~startswith_at(nm) THEN nm ELSE Tail(nm)

\* dict key comparison of a registered key with a str.  The keys that
\* new and add register are the entities' ids, uuid4() values, and a UUID
\* compares unequal to every str.
key_eq_str(k, nm) == FALSE

\* self.lookup[name]: the keys of lookup that match the str
str_keys(lk, nm) == {k \in DOMAIN lk : key_eq_str(k, nm)}

\* TagStore.new that stores the name as given, '@' included
TagStore_new_keeps_at(s, nm, tid, parent_id) ==
    LET tag == tid
        s0  == [Construct(s, tid) EXCEPT !.name[tid] = nm]
        r   == IF parent_id # None
               THEN Discard(BaseStore_add(s0, tag, parent_id), s, tid)
               ELSE Ok([s0 EXCEPT !.data = Append(@, tag),
                                  !.lookup = DictSet(@, tid, tag)])
    IN  [s |-> r.s, err |-> r.err, ret |-> IF r.err = "none" THEN tag ELSE None]

\* TagStore.new.  ret is the tag returned.
TagStore_new(s, nm, tid, parent_id) ==
    LET n == strip_at(nm)
    IN  IF str_keys(s.lookup, n) # {}
        THEN [s |-> s, err |-> "none",
              ret |-> s.lookup[CHOOSE k \in str_keys(s.lookup, n) : TRUE]]
        ELSE LET tag == tid
                 s0  == [Construct(s, tid) EXCEPT !.name[tid] = n]
                 r   == IF parent_id # None
                        THEN Discard(BaseStore_add(s0, tag, parent_id), s, tid)
                        ELSE Ok([s0 EXCEPT !.data = Append(@, tag),
                                           !.lookup = DictSet(@, tid, tag)])
             IN  [s |-> r.s, err |-> r.err,
                  ret |-> IF r.err = "none" THEN tag ELSE None]

SavedSearchStore_new(s, nm, search_id, parent_id) ==
    LET search == search_id
        s0     == [Construct(s, search_id) EXCEPT !.name[search_id] = nm]
        r      == IF parent_id # None
                  THEN Discard(BaseStore_add(s0, search, parent_id), s, search_id)
                  ELSE Ok([s0 EXCEPT !.data = Append(@, search),
                                     !.lookup = DictSet(@, search_id, search)])
    IN  [s |-> r.s, err |-> r.err, ret |-> IF r.err = "none" THEN search ELSE None]

\* method resolution: the store's class decides which definition runs
new(k, s, nm, tid, parent_id) ==
    CASE k = "task"   -> LET r == TaskStore_new(s, tid, parent_id)
                         IN  [s |-> r.s, err |-> r.err,
                              ret |-> IF r.err = "none" THEN tid ELSE None]
      [] k = "tag"    -> TagStore_new(s, nm, tid, parent_id)
      [] k = "search" -> SavedSearchStore_new(s, nm, tid, parent_id)

store_parent(k, s, item_id, parent_id) ==
    IF k = "task" THEN TaskStore_parent(s, item_id, parent_id)
    ELSE BaseStore_parent(s, item_id, parent_id)

store_unparent(k, s, item_id, parent_id) ==
    IF k = "task" THEN TaskStore_unparent(s, item_id, parent_id)
    ELSE BaseStore_unparent(s, item_id, parent_id)

store_get(k, s, key) ==
    CASE k = "task"   -> TaskStore_get(s, key)
      [] k = "tag"    -> TagStore_get(s, key)
      [] k = "search" -> BaseStore_get(s, key)

taskvars == <<status, date_closed, date_due, lastvalue, lastfz, tags, lasttag, tpre, tcalls>>
colorvars == <<used_colors, color, gen, colors_before, generated>>
storevars == <<kind, data, lookup, order, loaded, children, parent, name, used, calls,
               newed, pre, last, lastname, rt>>

----------------------------------------------------------------------------
\* TASKS: Task2.toggle_status and Task2.dismiss.  A task's parent field
\* and children list are those of the store record s; m holds the status
\* and the closed date of every task.

\* the task fields, as one record
Fields == [status |-> status, date_closed |-> date_closed, date_due |-> date_due,
           tags |-> tags]

\* depth of the Python call stack followed: no chain of calls in a forest
\* of MaxId tasks is deeper (down through children, then up through the
\* parents), so running out of it is the RecursionError of a cyclic tree
RecursionLimit == 2 * MaxId + 1

RECURSIVE toggle_status(_, _, _, _, _)
RECURSIVE toggle_children(_, _, _, _, _)
\* Task2.toggle_status(propagate)
toggle_status(m, s, self, propagate, fuel) ==
    IF fuel = 0 THEN Raise(m, "RecursionError")
    ELSE LET r1 == IF m.status[self] = "ACTIVE"
                   THEN Ok([m EXCEPT !.status[self] = "DONE",
                                     !.date_closed[self] = "today"])
                   ELSE LET m1 == [m EXCEPT !.status[self] = "ACTIVE",
                                            !.date_closed[self] = "no_date"]
                        IN  IF s.parent[self] # None /\ m1.status[s.parent[self]] # "ACTIVE"
                            THEN toggle_status(m1, s, s.parent[self], FALSE, fuel - 1)
                            ELSE Ok(m1)
         IN  IF r1.err # "none" \/ ~propagate THEN r1
             ELSE toggle_children(r1.s, s, s.children[self], 1, fuel)

\* for child in self.children: child.toggle_status()
toggle_children(m, s, kids, j, fuel) ==
    IF j > Len(kids) THEN Ok(m)
    ELSE LET r == toggle_status(m, s, kids[j], TRUE, fuel - 1)
         IN  IF r.err # "none" THEN r ELSE toggle_children(r.s, s, kids, j + 1, fuel)

\* Date (GTG.core.dates), as far as the due date setter uses it: a date
\* is no date, or a day, concrete or fuzzy.  A fuzzy date stands for a day
\* (a token such as "soon"); whether it takes part in < is left open: with
\* fz it orders by its day, without it no fuzzy date is less than a date.
no_date == [fuzzy |-> FALSE, day |-> 0]
Dates == {no_date} \cup [fuzzy : BOOLEAN, day : 1 .. MaxDay]
\* bool(date)
Date_bool(d) == d # no_date
\* date.is_fuzzy()
is_fuzzy(d) == d.fuzzy
\* a < b
Date_lt(a, b, fz) == (fz \/ (~a.fuzzy /\ ~b.fuzzy)) /\ a.day < b.day

RECURSIVE set_due_date(_, _, _, _, _, _)
RECURSIVE set_due_children(_, _, _, _, _, _, _)
\* the setter pulling a fuzzy parent that is later than value
set_due_date_pulls_later_parent(m, s, self, value, fz, fuel) ==
    IF fuel = 0 THEN Raise(m, "RecursionError")
    ELSE LET m1 == [m EXCEPT !.date_due[self] = value]
         IN  IF ~Date_bool(value) \/ is_fuzzy(value) THEN Ok(m1)
             ELSE LET r == set_due_children(m1, s, s.children[self], 1, value, fz, fuel)
                      p == s.parent[self]
                  IN  IF r.err # "none" THEN r
                      ELSE IF /\ p # None
                              /\ Date_bool(r.s.date_due[p])
                              /\ is_fuzzy(r.s.date_due[p])
                              /\ Date_lt(value, r.s.date_due[p], fz)
                           THEN set_due_date(r.s, s, p, value, fz, fuel - 1)
                           ELSE r
\* Task2.due_date = value (the property setter)
set_due_date(m, s, self, value, fz, fuel) ==
    IF fuel = 0 THEN Raise(m, "RecursionError")
    ELSE LET m1 == [m EXCEPT !.date_due[self] = value]
         IN  IF ~Date_bool(value) \/ is_fuzzy(value) THEN Ok(m1)
             ELSE LET r == set_due_children(m1, s, s.children[self], 1, value, fz, fuel)
                      p == s.parent[self]
                  IN  IF r.err # "none" THEN r
                      ELSE IF /\ p # None
                              /\ Date_bool(r.s.date_due[p])
                              /\ is_fuzzy(r.s.date_due[p])
                              /\ Date_lt(r.s.date_due[p], value, fz)
                           THEN set_due_date(r.s, s, p, value, fz, fuel - 1)
                           ELSE r

\* for child in self.children: a concrete later due date becomes value
set_due_children(m, s, kids, j, value, fz, fuel) ==
    IF j > Len(kids) THEN Ok(m)
    ELSE LET child == kids[j]
             r == IF /\ Date_bool(m.date_due[child])
                     /\ ~is_fuzzy(m.date_due[child])
                     /\ Date_lt(value, m.date_due[child], fz)
                  THEN set_due_date(m, s, child, value, fz, fuel - 1)
                  ELSE Ok(m)
         IN  IF r.err # "none" THEN r
             ELSE set_due_children(r.s, s, kids, j + 1, value, fz, fuel)

\* isinstance(tag, Tag2)
isinstance_Tag2(tag) == tag \in Tag2Values

RECURSIVE add_tag(_, _, _, _)
RECURSIVE add_tag_children(_, _, _, _, _)
\* Task2.add_tag
add_tag(m, s, self, tag) ==
    IF isinstance_Tag2(tag)
    THEN IF ~InSeq(m.tags[self], tag)
         THEN add_tag_children([m EXCEPT !.tags[self] = Append(@, tag)],
                               s, s.children[self], 1, tag)
         ELSE Ok(m)
    ELSE Raise(m, "ValueError")

\* for child in self.children: child.add_tag(tag)
add_tag_children(m, s, kids, j, tag) ==
    IF j > Len(kids) THEN Ok(m)
    ELSE LET r == add_tag(m, s, kids[j], tag)
         IN  IF r.err # "none" THEN r ELSE add_tag_children(r.s, s, kids, j + 1, tag)

RECURSIVE dismiss(_, _, _, _)
RECURSIVE dismiss_children(_, _, _, _, _)
\* dismiss that leaves the children as they are
dismiss_self_only(m, s, self, fuel) ==
    Ok([m EXCEPT !.status[self] = "DISMISSED"])
\* Task2.dismiss
dismiss(m, s, self, fuel) ==
    IF fuel = 0 THEN Raise(m, "RecursionError")
    ELSE dismiss_children([m EXCEPT !.status[self] = "DISMISSED"], s, s.children[self], 1, fuel)

\* for child in self.children: child.dismiss()
dismiss_children(m, s, kids, j, fuel) ==
    IF j > Len(kids) THEN Ok(m)
    ELSE LET r == dismiss(m, s, kids[j], fuel - 1)
         IN  IF r.err # "none" THEN r ELSE dismiss_children(r.s, s, kids, j + 1, fuel)

----------------------------------------------------------------------------
\* SERIALIZING: SavedSearchStore.to_xml / from_xml, and TagStore's, which
\* differ in the element tag and in the attributes written (a tag's color
\* and icon are written when set; no store operation sets them).

\* str(id): the text of an identifier.  Texts are kept apart from the
\* identifiers: the text of i is the number i + MaxId.
Str(i) == i + MaxId
StrIds == {Str(i) : i \in Ids}
StrSeq(seq) == [j \in 1 .. Len(seq) |-> Str(seq[j])]

\* dict iteration order after a call: the keys kept stay in place, a key
\* registered by the call comes last
order_after(ord, lk) ==
    LET kept  == SelectSeq(ord, LAMBDA k : k \in DOMAIN lk)
        fresh == (DOMAIN lk) \ Range(ord)
    IN  IF fresh = {} THEN kept ELSE Append(kept, CHOOSE k \in fresh : TRUE)

\* parent_map: for search in self.data: for child in search.children:
\*     parent_map[child.id] = search.id      (a later root overwrites)
parent_map(s) ==
    LET kids == UNION {Range(s.children[r]) : r \in Range(s.data)}
        at(c) == CHOOSE j \in 1 .. Len(s.data) :
                    /\ InSeq(s.children[s.data[j]], c)
                    /\ \A k \in (j + 1) .. Len(s.data) : ~InSeq(s.children[s.data[k]], c)
    IN  [c \in kids |-> s.data[at(c)]]

\* to_xml: one element per lookup value, in dict order; the parent
\* attribute is set for the keys of parent_map only
to_xml(s, ord) ==
    LET pm == parent_map(s)
    IN  [j \in 1 .. Len(ord) |->
            LET e == s.lookup[ord[j]]
            IN  [id     |-> Str(e),
                 name   |-> s.name[e],
                 parent |-> IF e \in DOMAIN pm THEN Str(pm[e]) ELSE None]]

\* a store just constructed, to load into; its entities are named by texts
Fresh == [data |-> <<>>, lookup |-> [x \in {} |-> x],
          children |-> [i \in StrIds |-> <<>>], parent |-> [i \in StrIds |-> None],
          name |-> [i \in StrIds |-> NoName]]

\* one loop of from_xml over the elements from index j on: the first loop
\* (children = FALSE) adds the elements without parent attribute as roots,
\* the second the others under their parent; an error of add ends the load
RECURSIVE from_xml_loop(_, _, _, _)
from_xml_loop(st, els, j, second) ==
    IF j > Len(els) THEN Ok(st)
    ELSE LET el == els[j]
         IN  IF (el.parent # None) # second
             THEN from_xml_loop(st, els, j + 1, second)
             ELSE LET obj == [Construct(st, el.id) EXCEPT !.name[el.id] = el.name]
                      r   == Discard(BaseStore_add(obj, el.id, el.parent), st, el.id)
                  IN  IF r.err # "none" THEN r
                      ELSE from_xml_loop(r.s, els, j + 1, second)

\* from_xml into a fresh store
from_xml(els) ==
    LET r == from_xml_loop(Fresh, els, 1, FALSE)
    IN  IF r.err # "none" THEN r ELSE from_xml_loop(r.s, els, 1, TRUE)

----------------------------------------------------------------------------
\* The state machine: one action per call on the store.

Store0 == [data |-> <<>>, lookup |-> [x \in {} |-> x],
           children |-> [i \in Ids |-> <<>>], parent |-> [i \in Ids |-> None],
           name |-> [i \in Ids |-> NoName]]

Idle == [phase |-> "idle", s |-> Store0, i |-> None, p |-> None]

Call(op, item, par, err, ret) ==
    [op |-> op, item |-> item, par |-> par, err |-> err, ret |-> ret]

Init ==
    /\ kind \in Kinds
    /\ data = Store0.data
    /\ lookup = Store0.lookup
    /\ order = <<>>
    /\ loaded = Ok(Fresh)
    /\ used_colors = {}
    /\ color = NoColor
    /\ gen = "idle"
    /\ colors_before = {}
    /\ generated = <<>>
    /\ status = [i \in Ids |-> "ACTIVE"]
    /\ date_closed = [i \in Ids |-> "no_date"]
    /\ date_due = [i \in Ids |-> no_date]
    /\ lastvalue = no_date
    /\ lastfz = TRUE
    /\ tags = [i \in Ids |-> <<>>]
    /\ lasttag = NotATag
    /\ tpre = [status |-> [i \in Ids |-> "ACTIVE"], date_closed |-> [i \in Ids |-> "no_date"],
               date_due |-> [i \in Ids |-> no_date], tags |-> [i \in Ids |-> <<>>]]
    /\ tcalls = 0
    /\ children = Store0.children
    /\ parent = Store0.parent
    /\ name = Store0.name
    /\ used = {}
    /\ calls = 0
    /\ newed = {}
    /\ pre = Store0
    /\ last = Call("init", None, None, "none", None)
    /\ lastname = NoName
    /\ rt = Idle

\* the store takes the value the call left, the history variables the call
Becomes(r, call) ==
    /\ data' = r.s.data
    /\ lookup' = r.s.lookup
    /\ order' = order_after(order, r.s.lookup)
    /\ UNCHANGED colorvars
    /\ UNCHANGED <<status, date_closed, date_due, tags, tcalls>>
    /\ lasttag' = NotATag
    /\ lastvalue' = no_date
    /\ lastfz' = TRUE
    /\ tpre' = Fields
    /\ loaded' = IF call.op = "reload" THEN from_xml(to_xml(r.s, order)) ELSE Ok(Fresh)
    /\ children' = r.s.children
    /\ parent' = r.s.parent
    /\ name' = r.s.name
    /\ calls < MaxCalls
    /\ calls' = calls + 1
    /\ used' = used \cup DOMAIN r.s.lookup
    /\ pre' = Store
    /\ last' = call
    /\ kind' = kind

\* uuid4(): an identifier never seen before.  Identifiers are
\* interchangeable, so the least unseen one stands for all of them.
Unseen == Ids \ used
uuid4 == CHOOSE i \in Unseen : \A j \in Unseen : i <= j

\* the names a call on this kind of store takes: tags and saved searches
\* are named; a saved search keeps its name as given
NamesOf(k) == IF k = "tag" THEN Names ELSE IF k = "search" THEN {<<"f">>} ELSE {NoName}

\* store.new(name, parent=par)
New ==
    /\ Unseen # {}
    /\ \E par \in Ids \cup {None}, nm \in NamesOf(kind) :
         LET tid == uuid4
             r   == new(kind, Store, nm, tid, par)
         IN  /\ Becomes(r, Call("new", tid, par, r.err, r.ret))
             /\ newed' = IF r.err = "none" THEN newed \cup {r.ret} ELSE newed
             /\ lastname' = nm
             /\ rt' = Idle

\* store.add(item, par) with an item the caller has just constructed; its id
\* is one the store has seen, or a new one
Add ==
    \E id \in used \cup (IF Unseen = {} THEN {} ELSE {uuid4}), par \in Ids \cup {None},
       nm \in {strip_at(n) : n \in NamesOf(kind)} :
         LET item == [Construct(Store, id) EXCEPT !.name[id] = nm]
             r    == Discard(BaseStore_add(item, id, par), Store, id)
         IN  /\ Becomes(r, Call("add", id, par, r.err, None))
             /\ newed' = newed
             /\ lastname' = nm
             /\ rt' = Idle

\* store.remove(id)
Remove ==
    \E id \in Ids :
         LET r == BaseStore_remove(Store, id)
         IN  /\ Becomes(r, Call("remove", id, None, r.err, None))
             /\ newed' = newed \cap DOMAIN r.s.lookup
             /\ lastname' = NoName
             /\ rt' = Idle

\* store.parent(i, p)
Parent ==
    \E i \in Ids, p \in Ids :
         LET r == store_parent(kind, Store, i, p)
         IN  /\ Becomes(r, Call("parent", i, p, r.err, None))
             /\ rt' = IF r.err = "none" /\ i # p
                      THEN [phase |-> "parented", s |-> Store, i |-> i, p |-> p]
                      ELSE Idle
             /\ lastname' = NoName
             /\ UNCHANGED newed

\* store.unparent(i, p)
Unparent ==
    \E i \in Ids, p \in Ids :
         LET r == store_unparent(kind, Store, i, p)
         IN  /\ Becomes(r, Call("unparent", i, p, r.err, None))
             /\ rt' = IF rt.phase = "parented" /\ rt.i = i /\ rt.p = p
                      THEN [rt EXCEPT !.phase = "unparented"]
                      ELSE Idle
             /\ lastname' = NoName
             /\ UNCHANGED newed

\* store.get(key)
Get ==
    \E key \in Ids :
         LET g == store_get(kind, Store, key)
         IN  /\ Becomes(Ok(Store), Call("get", key, None, g.err, g.ret))
             /\ rt' = Idle
             /\ lastname' = NoName
             /\ UNCHANGED newed

\* fresh = Store(); fresh.from_xml(store.to_xml()), for the two stores whose
\* serialisation runs
Reload ==
    /\ kind \in {"tag", "search"}
    /\ Becomes(Ok(Store), Call("reload", None, None, "none", None))
    /\ lastname' = NoName
    /\ rt' = Idle
    /\ UNCHANGED newed

Next == New \/ Add \/ Remove \/ Parent \/ Unparent \/ Get \/ Reload

Spec == Init /\ [][Next]_vars

----------------------------------------------------------------------------
\* Vocabulary of the properties

\* what a set of entities reaches by following children
RECURSIVE Reach(_, _)
Reach(s, X) ==
    LET Y == X \cup UNION {Range(s.children[x]) : x \in X}
    IN  IF Y = X THEN X ELSE Reach(s, Y)

\* the entities reachable from the root sequence
Reachable(s) == Reach(s, Range(s.data))

\* the descendants of e at every depth
Descendants(s, e) == Reach(s, Range(s.children[e]))

\* the registered entities whose children sequence holds e
Containers(s, e) == {x \in DOMAIN s.lookup : InSeq(s.children[x], e)}

\* e is in a container: a root, or a child of a registered entity
Placed(s, e) == InSeq(s.data, e) \/ Containers(s, e) # {}

\* root sequence, children sequences and lookup are those of s
SameForest(s) ==
    /\ data = s.data
    /\ children = s.children
    /\ lookup = s.lookup

\* C1: every entity registered in lookup is in exactly one place of the
\* forest: once in the root sequence, or once in the children of exactly one
\* other registered entity.
C1_ExactlyOnePlace ==
    \A e \in DOMAIN lookup :
        \/ /\ Occurrences(data, e) = 1
           /\ Containers(Store, e) = {}
        \/ /\ Occurrences(data, e) = 0
           /\ \E x \in (DOMAIN lookup) \ {e} :
                 /\ Containers(Store, e) = {x}
                 /\ Occurrences(children[x], e) = 1

\* C2: the keys of lookup are exactly the entities reachable from the roots,
\* and count() = count(root_only=True) + the number of descendants of roots.
C2_LookupIsReachable ==
    /\ DOMAIN lookup = Reachable(Store)
    /\ count(Store, FALSE)
         = count(Store, TRUE) + Cardinality(Reachable(Store) \ Range(data))

\* C3: once remove(id) has returned, id is not in lookup and get(id) fails
\* with KeyError.
C3_RemovedIsGone ==
    (last.op = "remove" /\ last.err = "none")
        => /\ last.item \notin DOMAIN lookup
           /\ store_get(kind, Store, last.item).err = "KeyError"

\* C4: remove(id) of an entity of the forest, a root or nested under the
\* roots, takes the entity and all its descendants, at every depth, out of
\* lookup, and the entity out of its container.
C4_RemoveTakesSubtree ==
    (last.op = "remove" /\ last.err = "none" /\ last.item \in Reachable(pre))
        => /\ last.item \notin DOMAIN lookup
           /\ Descendants(pre, last.item) \cap DOMAIN lookup = {}
           /\ ~Placed(Store, last.item)

\* C5: get(e.id) of an entity e that new returned and that is still
\* registered returns e, in each of the three stores.
C5_GetReturnsNewed ==
    (last.op = "get" /\ last.item \in newed)
        => /\ last.err = "none"
           /\ last.ret = last.item

\* C6: parent(item_id, parent_id) with item_id or parent_id absent from
\* lookup fails with KeyError and leaves the store as it was.
C6_ParentAbsentLeavesStore ==
    (/\ last.op = "parent"
     /\ \/ last.item \notin DOMAIN pre.lookup
        \/ last.par \notin DOMAIN pre.lookup)
        => /\ last.err = "KeyError"
           /\ SameForest(pre)

\* C7: add fails, with the store unchanged, on an id already registered and
\* on a parent that is given and absent; when it succeeds the entity is
\* the last child of the named parent, or the last root, and is registered.
C7_AddAtomic ==
    last.op = "add" =>
        /\ last.item \in DOMAIN pre.lookup
              => (last.err = "KeyError" /\ SameForest(pre))
        /\ (last.par # None /\ last.par \notin DOMAIN pre.lookup)
              => (last.err = "KeyError" /\ SameForest(pre))
        /\ last.err = "none"
              => /\ lookup = DictSet(pre.lookup, last.item, last.item)
                 /\ IF last.par = None
                    THEN /\ data = Append(pre.data, last.item)
                         /\ \A x \in Ids \ {last.item} : children[x] = pre.children[x]
                    ELSE /\ data = pre.data
                         /\ \A x \in Ids \ {last.item, pre.lookup[last.par]} :
                               children[x] = pre.children[x]
                         /\ children[pre.lookup[last.par]]
                              = Append(pre.children[pre.lookup[last.par]], last.item)

\* an add refused for its absent parent, on a store that holds entities
C7_Witness ==
    /\ last.op = "add"
    /\ last.err = "KeyError"
    /\ last.item \notin DOMAIN pre.lookup
    /\ last.par # None
    /\ pre.data # <<>>

\* C8: parent(item_id, parent_id) on two registered identifiers succeeds,
\* the item a root or nested, and leaves the item as the last child of
\* parent_id and out of its previous container.
C8_ParentMovesAny ==
    (/\ last.op = "parent"
     /\ last.item \in DOMAIN pre.lookup
     /\ last.par \in DOMAIN pre.lookup)
        => /\ last.err = "none"
           /\ children[last.par] # <<>>
           /\ children[last.par][Len(children[last.par])] = last.item
           /\ InSeq(pre.data, last.item) => ~InSeq(data, last.item)
           /\ \A x \in Containers(pre, last.item) \ {last.par} :
                 ~InSeq(children[x], last.item)

\* C9: unparent(item_id, parent_id) with parent_id registered and item_id
\* not among its direct children fails with KeyError and changes nothing.
C9_UnparentNotChild ==
    (/\ last.op = "unparent"
     /\ last.par \in DOMAIN pre.lookup
     /\ ~InSeq(pre.children[pre.lookup[last.par]], last.item))
        => /\ last.err = "KeyError"
           /\ SameForest(pre)
           /\ parent = pre.parent

\* an unparent of a registered entity from a registered parent it is not under
C9_Witness ==
    /\ last.op = "unparent"
    /\ last.err = "KeyError"
    /\ last.par \in DOMAIN pre.lookup
    /\ last.item \in DOMAIN pre.lookup
    /\ Containers(pre, last.item) # {}
    /\ ~InSeq(pre.children[pre.lookup[last.par]], last.item)

\* C10 as claimed: parent(i, p) then unparent(i, p), for a root i and
\* another registered p, gives back the store as it was, the order of the
\* roots included.
C10_RoundTripExact ==
    rt.phase = "unparented"
        => /\ last.err = "none"
           /\ SameForest(rt.s)
           /\ parent = rt.s.parent

\* C10 as amended: the round trip gives back lookup, the children sequences
\* and the parent back-references; the roots are the same with i moved to
\* the end of the root sequence.
C10_RoundTripMovesToEnd ==
    rt.phase = "unparented"
        => /\ last.err = "none"
           /\ lookup = rt.s.lookup
           /\ children = rt.s.children
           /\ parent = rt.s.parent
           /\ data = Append(ListRemove(rt.s.data, rt.i), rt.i)

\* a round trip of a root that was not the last root
C10_Witness ==
    /\ rt.phase = "unparented"
    /\ last.op = "unparent"
    /\ last.err = "none"
    /\ Len(rt.s.data) >= 2
    /\ rt.s.data[1] = rt.i

----------------------------------------------------------------------------
\* Well-formedness of the model itself: the roots are registered, a
\* registered entity's children are registered or were removed with their
\* parent, and no descent of remove runs through a cycle.
NoRecursionError == last.err # "RecursionError"
RootsRegistered == Range(data) \subseteq DOMAIN lookup
ReachableRegistered == Reachable(Store) \subseteq DOMAIN lookup
RegisteredChildren == \A x \in DOMAIN lookup : Range(children[x]) \subseteq DOMAIN lookup
LookupIsIdentity == \A k \in DOMAIN lookup : lookup[k] = k
RootsHaveNoParent == \A x \in Range(data) : parent[x] = None

----------------------------------------------------------------------------
\* the registered tags of s that carry the name nm
Named(s, nm) == {e \in DOMAIN s.lookup : s.name[s.lookup[e]] = nm}

\* C11: on a TagStore that holds a tag named n, new(n) and new('@' + n)
\* return that tag and leave roots, children and lookup as they were.
C11_NewIdempotentByName ==
    (/\ kind = "tag"
     /\ last.op = "new"
     /\ Named(pre, strip_at(lastname)) # {})
        => /\ last.err = "none"
           /\ last.ret \in Named(pre, strip_at(lastname))
           /\ SameForest(pre)

\* C12: a new call that creates an entity registers it under its fresh id
\* and puts it in exactly one container: last among the roots when no
\* parent is given, last among the children of the parent given otherwise;
\* a tag is named by the argument without its leading '@'.
C12_NewPlacesOnce ==
    (last.op = "new" /\ last.err = "none" /\ last.ret \notin DOMAIN pre.lookup)
        => /\ last.ret = last.item
           /\ lookup = DictSet(pre.lookup, last.ret, last.ret)
           /\ Occurrences(data, last.ret) + Cardinality(Containers(Store, last.ret)) = 1
           /\ IF last.par = None
              THEN /\ data = Append(pre.data, last.ret)
                   /\ count(Store, TRUE) = count(pre, TRUE) + 1
                   /\ \A x \in DOMAIN pre.lookup : children[x] = pre.children[x]
              ELSE /\ data = pre.data
                   /\ children[pre.lookup[last.par]]
                        = Append(pre.children[pre.lookup[last.par]], last.ret)
                   /\ \A x \in (DOMAIN pre.lookup) \ {pre.lookup[last.par]} :
                         children[x] = pre.children[x]
           /\ kind = "tag" => name[last.ret] = strip_at(lastname)

\* a tag created under an existing parent from a name written with '@'
C12_Witness ==
    /\ kind = "tag"
    /\ last.op = "new"
    /\ last.err = "none"
    /\ last.par \in DOMAIN pre.lookup
    /\ lastname = <<"@", "f">>
    /\ name[last.ret] = <<"f">>

----------------------------------------------------------------------------
\* the store is a forest: every registered entity is in exactly one place
\* and is reachable from the roots
IsForest == C1_ExactlyOnePlace /\ C2_LookupIsReachable

\* the loaded store is the store, identifier texts for identifiers
SameAsLoaded(l) ==
    /\ DOMAIN l.lookup = {Str(e) : e \in DOMAIN lookup}
    /\ l.data = StrSeq(data)
    /\ \A e \in DOMAIN lookup :
          /\ l.children[Str(e)] = StrSeq(children[e])
          /\ l.name[Str(e)] = name[e]

\* C13: from_xml(to_xml(store)) into a fresh SavedSearchStore or TagStore
\* gives, for a forest of any depth, the same identifiers, the same roots,
\* the same children in the same order and the same attribute values.
C13_XmlRoundTrip ==
    (last.op = "reload" /\ IsForest)
        => /\ loaded.err = "none"
           /\ SameAsLoaded(loaded.s)

\* the round trip does give back a forest of depth one whose dict order is
\* its root order (the part of C13 that holds; not the claim)
ShallowRoundTrip ==
    (/\ last.op = "reload"
     /\ IsForest
     /\ \A r \in Range(data) : \A c \in Range(children[r]) : children[c] = <<>>
     /\ SelectSeq(order, LAMBDA k : InSeq(data, k)) = data
     /\ \A r \in Range(data) :
           SelectSeq(order, LAMBDA k : InSeq(children[r], k)) = children[r])
        => /\ loaded.err = "none"
           /\ SameAsLoaded(loaded.s)

----------------------------------------------------------------------------
\* TagStore.generate_color, statement by statement.

\* random.randint(0, MAX_VALUE)
randint == 0 .. MAX_VALUE

\* self.used_colors.add(color), without the add
used_colors_add_nothing(u, c) == u
\* self.used_colors.add(color)
used_colors_add(u, c) == u \cup {c}

\* color = None, on entry
GenerateColorCall ==
    /\ kind = "tag"
    /\ gen = "idle"
    /\ Len(generated) < MaxGen
    /\ gen' = "loop"
    /\ color' = NoColor
    /\ colors_before' = used_colors
    /\ UNCHANGED <<used_colors, generated>>
    /\ UNCHANGED taskvars
    /\ UNCHANGED storevars

\* while color in self.used_colors: color = Color(randint, randint, randint).to_string()
GenerateColorDraw ==
    /\ gen = "loop"
    /\ color \in used_colors
    /\ \E red \in randint, green \in randint, blue \in randint :
          color' = to_string(Color(red, green, blue))
    /\ UNCHANGED <<used_colors, gen, colors_before, generated>>
    /\ UNCHANGED taskvars
    /\ UNCHANGED storevars

\* the loop is left: self.used_colors.add(color); return color
GenerateColorReturn ==
    /\ gen = "loop"
    /\ color \notin used_colors
    /\ used_colors' = used_colors_add(used_colors, color)
    /\ generated' = Append(generated, color)
    /\ gen' = "idle"
    /\ UNCHANGED <<color, colors_before>>
    /\ UNCHANGED taskvars
    /\ UNCHANGED storevars

InitColor == Init /\ kind = "tag"
NextColor == GenerateColorCall \/ GenerateColorDraw \/ GenerateColorReturn
SpecColor == InitColor /\ [][NextColor]_vars

\* C14: the values N consecutive generate_color calls returned are pairwise
\* distinct, the value a call returned was not in used_colors when the call
\* began, each call adds exactly one element to used_colors, N calls add N.
C14_ColorsDistinct ==
    /\ \A i \in 1 .. Len(generated) : \A j \in 1 .. Len(generated) :
          i # j => generated[i] # generated[j]
    /\ (gen = "idle" /\ generated # <<>>) =>
          /\ generated[Len(generated)] \notin colors_before
          /\ used_colors = colors_before \cup {generated[Len(generated)]}
          /\ Cardinality(used_colors) = Cardinality(colors_before) + 1
          /\ Cardinality(used_colors) = Len(generated)

\* three calls returned, the last one after drawing a used color again
C14_Witness ==
    /\ gen = "idle"
    /\ Len(generated) = MaxGen
    /\ generated[2] # NoColor
    /\ generated[3] # NoColor

\* the color strings: Color(r, g, b).to_string() with each channel drawn by
\* randint
ColorStrings == {to_string(Color(red, green, blue)) :
                    red \in randint, green \in randint, blue \in randint}

\* C25: every generate_color call, the first one on a fresh store included,
\* returns a color string built from three channel values drawn in
\* 0..MAX_VALUE, and that string is what the call recorded in used_colors.
C25_ReturnsColorString ==
    (gen = "idle" /\ generated # <<>>) =>
        /\ generated[Len(generated)] \in ColorStrings
        /\ generated[Len(generated)] \in used_colors
        /\ generated[Len(generated)] \notin colors_before

\* what does hold: the returned value is the one recorded, and every call
\* but the first on a fresh store returns a color string
LaterCallsReturnColorString ==
    (gen = "idle" /\ generated # <<>>) =>
        /\ generated[Len(generated)] \in used_colors
        /\ generated[Len(generated)] \notin colors_before
        /\ Len(generated) > 1 => generated[Len(generated)] \in ColorStrings

----------------------------------------------------------------------------
\* A TaskStore and its tasks: the store calls that build the tree, and the
\* calls on the tasks the store holds.

\* a call on a task returned or raised; the store is as it was
TaskReturns(r, call, value, fz) ==
    /\ kind = "task"
    /\ tcalls' = tcalls + 1
    /\ status' = r.s.status
    /\ date_closed' = r.s.date_closed
    /\ date_due' = r.s.date_due
    /\ lastvalue' = value
    /\ lastfz' = fz
    /\ tags' = r.s.tags
    /\ tpre' = Fields
    /\ pre' = Store
    /\ last' = call
    /\ lastname' = NoName
    /\ rt' = Idle
    /\ UNCHANGED <<kind, data, lookup, order, loaded, children, parent, name, used, calls, newed>>
    /\ UNCHANGED colorvars

\* the same, for one of the first MaxTaskCalls calls on the tasks
TaskBecomes(r, call, value, fz) ==
    /\ tcalls < MaxTaskCalls
    /\ TaskReturns(r, call, value, fz)
    /\ lasttag' = NotATag

\* task.toggle_status() and task.toggle_status(propagate=False)
ToggleStatus ==
    \E t \in DOMAIN lookup, propagate \in BOOLEAN :
        LET r == toggle_status(Fields, Store, lookup[t], propagate, RecursionLimit)
        IN  TaskBecomes(r, Call(IF propagate THEN "toggle_status" ELSE "toggle_status_alone",
                                lookup[t], None, r.err, None), no_date, TRUE)

\* task.dismiss()
Dismiss ==
    \E t \in DOMAIN lookup :
        LET r == dismiss(Fields, Store, lookup[t], RecursionLimit)
        IN  TaskBecomes(r, Call("dismiss", lookup[t], None, r.err, None), no_date, TRUE)

InitTask == Init /\ kind = "task"
\* the store calls that build the task tree
BuildTree == calls < MaxTreeCalls /\ (New \/ Parent \/ Unparent)
NextTask == BuildTree \/ ToggleStatus \/ Dismiss
SpecTask == InitTask /\ [][NextTask]_vars

\* the last call was toggle_status, with or without propagation, and returned
Toggled == last.op \in {"toggle_status", "toggle_status_alone"} /\ last.err = "none"

\* C15: toggle_status on an ACTIVE task leaves it DONE with the closed date
\* set to today; on a DONE task it leaves it ACTIVE with no closed date.
C15_ToggleFlips ==
    (Toggled /\ IsForest)
        => /\ tpre.status[last.item] = "ACTIVE"
                => status[last.item] = "DONE" /\ date_closed[last.item] = "today"
           /\ tpre.status[last.item] = "DONE"
                => status[last.item] = "ACTIVE" /\ date_closed[last.item] = "no_date"

\* C16: when a task B that is a child of A (made by new with a parent, or by
\* parent) is toggled to ACTIVE while A is not ACTIVE, A is ACTIVE on return
\* and every sibling of B has the status it had.
C16_ChildReactivatesParent ==
    (Toggled /\ IsForest)
        => \A A \in DOMAIN lookup :
              (/\ InSeq(children[A], last.item)
               /\ tpre.status[last.item] # "ACTIVE"
               /\ status[last.item] = "ACTIVE"
               /\ tpre.status[A] # "ACTIVE")
                  => /\ status[A] = "ACTIVE"
                     /\ \A c \in Range(children[A]) \ {last.item} :
                           status[c] = tpre.status[c]

\* what does hold: the same for a child whose parent field is A, which the
\* store's parent sets and the store's new does not
ParentFieldReactivates ==
    (Toggled /\ IsForest)
        => \A A \in DOMAIN lookup :
              (/\ InSeq(children[A], last.item)
               /\ parent[last.item] = A
               /\ tpre.status[last.item] # "ACTIVE"
               /\ tpre.status[A] # "ACTIVE")
                  => /\ status[A] = "ACTIVE"
                     /\ \A c \in Range(children[A]) \ {last.item} :
                           status[c] = tpre.status[c]

\* C17: a task that is DISMISSED stays DISMISSED through every later
\* toggle_status and dismiss call on a task of its tree.
C17_DismissedIsAbsorbing ==
    (last.op \in {"toggle_status", "toggle_status_alone", "dismiss"} /\ IsForest)
        => \A x \in DOMAIN lookup :
              tpre.status[x] = "DISMISSED" => status[x] = "DISMISSED"

\* C18: after dismiss on T, T and its descendants at every depth are
\* DISMISSED, whatever they were, and every other task has the status it had.
C18_DismissCascades ==
    (last.op = "dismiss" /\ last.err = "none")
        => LET sub == {last.item} \cup Descendants(Store, last.item)
           IN  /\ \A x \in sub : status[x] = "DISMISSED"
               /\ \A x \in Ids \ sub : status[x] = tpre.status[x]

\* a dismiss that reached a DONE grandchild and left the task's parent alone
C18_Witness ==
    /\ last.op = "dismiss"
    /\ last.err = "none"
    /\ IsForest
    /\ \E c \in Range(children[last.item]) : \E g \in Range(children[c]) :
          tpre.status[g] = "DONE" /\ status[g] = "DISMISSED"

\* C20: after toggle_status() with propagation on T, every descendant of T
\* has the status of T, whatever it had.
C20_TogglePropagatesStatus ==
    (last.op = "toggle_status" /\ last.err = "none" /\ IsForest)
        => \A d \in Descendants(Store, last.item) : status[d] = status[last.item]

----------------------------------------------------------------------------
\* Due dates of the tasks of a TaskStore.

\* task.due_date = value, as one of the first n calls on the tasks
SetDueDateWithin(n) ==
    \E t \in DOMAIN lookup, value \in Dates :
      \* the setter returns before any comparison unless value is concrete
      \E fz \in IF Date_bool(value) /\ ~is_fuzzy(value) THEN BOOLEAN ELSE {TRUE} :
        LET r == set_due_date(Fields, Store, lookup[t], value, fz, RecursionLimit)
        IN  /\ tcalls < n
            /\ TaskReturns(r, Call("due_date", lookup[t], None, r.err, None), value, fz)
            /\ lasttag' = NotATag

\* task.due_date = value
SetDueDate == SetDueDateWithin(MaxTaskCalls)

NextDue == BuildTree \/ SetDueDate
SpecDue == InitTask /\ [][NextDue]_vars


\* the case of C19: the due date of a task C whose parent field is P,
\* another task, with a fuzzy due date, was set to a concrete value
DueChild == last.item
DueParent == parent[last.item]
ChildDueSet ==
    /\ last.op = "due_date"
    /\ last.err = "none"
    /\ DueParent # None
    /\ InSeq(children[DueParent], DueChild)
    /\ Date_bool(tpre.date_due[DueParent])
    /\ is_fuzzy(tpre.date_due[DueParent])
    /\ Date_bool(lastvalue)
    /\ ~is_fuzzy(lastvalue)
    /\ DueParent # DueChild

\* C19: with C.parent = P and P's due date fuzzy, setting C's due date to a
\* concrete value earlier than P's due date makes P's due date that value.
C19_EarlierChildPullsParent ==
    (ChildDueSet /\ lastvalue.day < tpre.date_due[DueParent].day)
        => date_due[DueParent] = lastvalue

\* C19, amended: P's due date becomes C's new value only if P's due date
\* was earlier than that value; a value that is not later than P's due date
\* leaves P's due date as it was.
C19_ParentPulledOnlyByLater ==
    ChildDueSet
        => /\ date_due[DueParent] \in {tpre.date_due[DueParent], lastvalue}
           /\ date_due[DueParent] = lastvalue
                 => tpre.date_due[DueParent].day < lastvalue.day
           /\ lastvalue.day <= tpre.date_due[DueParent].day
                 => date_due[DueParent] = tpre.date_due[DueParent]
           /\ date_due[DueChild] = lastvalue

\* C's due date was set to a concrete day before P's fuzzy one, and P kept its own
C19_Witness ==
    /\ ChildDueSet
    /\ IsForest
    /\ lastvalue.day < tpre.date_due[DueParent].day
    /\ date_due[DueParent] = tpre.date_due[DueParent]
    /\ date_due[DueChild] = lastvalue

\* a later value did pull the parent (the direction the setter implements)
LaterChildPullsParent ==
    /\ ChildDueSet
    /\ tpre.date_due[DueParent].day < lastvalue.day
    /\ date_due[DueParent] = lastvalue

----------------------------------------------------------------------------
\* A TaskStore whose tree was built before the tasks are called: a state
\* the store calls lead to, computed by running them on a new store.

\* how the tasks after the first come into the tree: task k as a root, as
\* new(title, parent=par), or as a root moved by parent(k, par)
Shapes ==
    {sh \in [2 .. MaxId -> [par : Ids \cup {None}, by : {"new", "parent"}]] :
        \A k \in 2 .. MaxId :
            /\ sh[k].par < k
            /\ sh[k].par = None => sh[k].by = "new"}

\* the store calls that build a shape, in order
RECURSIVE BuildScript(_, _)
BuildScript(sh, k) ==
    IF k > MaxId THEN <<>>
    ELSE IF k = 1 THEN <<[op |-> "new", item |-> 1, par |-> None]>> \o BuildScript(sh, 2)
    ELSE IF sh[k].by = "new"
         THEN <<[op |-> "new", item |-> k, par |-> sh[k].par]>> \o BuildScript(sh, k + 1)
         ELSE <<[op |-> "new", item |-> k, par |-> None],
                [op |-> "parent", item |-> k, par |-> sh[k].par]>> \o BuildScript(sh, k + 1)

\* the store after the first n calls of a script
RECURSIVE Run(_, _)
Run(script, n) ==
    IF n = 0 THEN Store0
    ELSE LET s == Run(script, n - 1)
             c == script[n]
         IN  IF c.op = "new" THEN TaskStore_new(s, c.item, c.par).s
             ELSE TaskStore_parent(s, c.item, c.par).s

\* the store and its history after the script of a shape has run
InitBuilt ==
    \E sh \in Shapes :
        LET script == BuildScript(sh, 1)
            n      == Len(script)
            s      == Run(script, n)
            c      == script[n]
        IN  /\ kind = "task"
            /\ data = s.data
            /\ lookup = s.lookup
            /\ children = s.children
            /\ parent = s.parent
            /\ name = s.name
            /\ order = [k \in 1 .. MaxId |-> k]
            /\ used = Ids
            /\ newed = Ids
            /\ calls = n
            /\ pre = Run(script, n - 1)
            /\ last = Call(c.op, c.item, c.par, "none", IF c.op = "new" THEN c.item ELSE None)
            /\ rt = IF c.op = "parent"
                    THEN [phase |-> "parented", s |-> Run(script, n - 1), i |-> c.item, p |-> c.par]
                    ELSE Idle
            /\ lastname = NoName
            /\ loaded = Ok(Fresh)
            /\ used_colors = {}
            /\ color = NoColor
            /\ gen = "idle"
            /\ colors_before = {}
            /\ generated = <<>>
            /\ status = [i \in Ids |-> "ACTIVE"]
            /\ date_closed = [i \in Ids |-> "no_date"]
            /\ date_due = [i \in Ids |-> no_date]
            /\ lastvalue = no_date
            /\ lastfz = TRUE
            /\ tags = [i \in Ids |-> <<>>]
            /\ lasttag = NotATag
            /\ tpre = [status |-> [i \in Ids |-> "ACTIVE"],
                       date_closed |-> [i \in Ids |-> "no_date"],
                       date_due |-> [i \in Ids |-> no_date],
                       tags |-> [i \in Ids |-> <<>>]]
            /\ tcalls = 0

NextBuilt == ToggleStatus \/ Dismiss
SpecBuilt == InitBuilt /\ [][NextBuilt]_vars

\* the tasks above x: its parent, the parent's parent and so on
RECURSIVE Above(_, _)
Above(x, seen) ==
    IF parent[x] = None \/ parent[x] \in seen THEN {}
    ELSE {parent[x]} \cup Above(parent[x], seen \cup {parent[x]})

\* C21: when T is toggled to ACTIVE and its parent is not ACTIVE, only the
\* parent is re-activated: the status and closed date of the grandparent and
\* of every higher ancestor are as before the call.
C21_ReactivationSingleHop ==
    (/\ Toggled
     /\ parent[last.item] # None
     /\ tpre.status[last.item] # "ACTIVE"
     /\ tpre.status[parent[last.item]] # "ACTIVE"
     /\ IsForest)
        => \A g \in Above(parent[last.item], {last.item, parent[last.item]}) :
              /\ status[g] = tpre.status[g]
              /\ date_closed[g] = tpre.date_closed[g]

\* the last call assigned a due date and returned
DueSet == last.op = "due_date" /\ last.err = "none"
\* a due date that is set and not fuzzy
Concrete(d) == Date_bool(d) /\ ~is_fuzzy(d)

\* C22: after T's due date is set to a concrete value v, a child whose due
\* date was concrete and later than v has the due date v, a child whose due
\* date was concrete and not later keeps it, and a child whose due date was
\* fuzzy or unset keeps it; a fuzzy or empty value changes no child.
C22_ChildrenClamped ==
    DueSet
        => \A c \in Range(children[last.item]) \ {last.item} :
              IF Concrete(lastvalue) /\ Concrete(tpre.date_due[c])
              THEN /\ date_due[c].day <= lastvalue.day
                   /\ Concrete(date_due[c])
                   /\ date_due[c] = IF tpre.date_due[c].day > lastvalue.day
                                    THEN lastvalue ELSE tpre.date_due[c]
              ELSE date_due[c] = tpre.date_due[c]

\* what does hold: the same in a forest, where no child of T is above T
ChildrenClampedInForest ==
    (DueSet /\ IsForest)
        => \A c \in Range(children[last.item]) :
              IF Concrete(lastvalue) /\ Concrete(tpre.date_due[c])
              THEN date_due[c] = IF tpre.date_due[c].day > lastvalue.day
                                 THEN lastvalue ELSE tpre.date_due[c]
              ELSE date_due[c] = tpre.date_due[c]

----------------------------------------------------------------------------
\* Due dates in a tree built beforehand.
SetDueDateOnBuilt == SetDueDateWithin(MaxDueCalls)
NextBuiltDue == SetDueDateOnBuilt
SpecBuiltDue == InitBuilt /\ [][NextBuiltDue]_vars

\* C23: when C's due date is set to a concrete value v and the fuzzy due
\* date of C's parent P compares earlier than v, P's due date becomes v and
\* no due date but those of C, of C's descendants and of P is changed: not
\* those of C's siblings, not those of the ancestors above P.
C23_UpwardOneHop ==
    (/\ ChildDueSet
     /\ Date_lt(tpre.date_due[DueParent], lastvalue, lastfz)
     /\ IsForest)
        => /\ date_due[DueParent] = lastvalue
           /\ \A x \in Ids \ ({DueChild, DueParent} \cup Descendants(Store, DueChild)) :
                 date_due[x] = tpre.date_due[x]

\* what does hold: the parent is pulled
ParentPulledByLater ==
    (/\ ChildDueSet
     /\ Date_lt(tpre.date_due[DueParent], lastvalue, lastfz)
     /\ IsForest)
        => date_due[DueParent] = lastvalue

----------------------------------------------------------------------------
\* Tags of the tasks of a TaskStore.

\* task.add_tag(tag)
AddTag ==
    \E t \in DOMAIN lookup, tag \in Tag2Values \cup {NotATag} :
        LET r == add_tag(Fields, Store, lookup[t], tag)
        IN  /\ tcalls < MaxTaskCalls
            /\ TaskReturns(r, Call("add_tag", lookup[t], None, r.err, None), no_date, TRUE)
            /\ lasttag' = tag

NextTags == BuildTree \/ AddTag
SpecTags == InitTask /\ [][NextTags]_vars

\* C24: after add_tag(tag) with a Tag2 on T, also when T carried the tag
\* already, the tag is in the tags of T and of every descendant of T and no
\* task has a tag twice; with a value that is not a Tag2 the call raises
\* ValueError and changes no tag list.
C24_AddTagCascades ==
    (last.op = "add_tag" /\ IsForest)
        => IF isinstance_Tag2(lasttag)
           THEN /\ last.err = "none"
                /\ \A x \in {last.item} \cup Descendants(Store, last.item) :
                      InSeq(tags[x], lasttag)
                /\ \A x \in Ids : \A g \in Tag2Values : Occurrences(tags[x], g) <= 1
           ELSE /\ last.err = "ValueError"
                /\ tags = tpre.tags

\* what does hold: the cascade when neither T nor a descendant carried the
\* tag, no duplicates, and ValueError without change
AddTagCascadesWhenNew ==
    (last.op = "add_tag" /\ IsForest)
        => IF isinstance_Tag2(lasttag)
           THEN /\ last.err = "none"
                /\ (\A x \in {last.item} \cup Descendants(Store, last.item) :
                       ~InSeq(tpre.tags[x], lasttag))
                      => \A x \in {last.item} \cup Descendants(Store, last.item) :
                            InSeq(tags[x], lasttag)
                /\ \A x \in Ids : \A g \in Tag2Values : Occurrences(tags[x], g) <= 1
           ELSE /\ last.err = "ValueError"
                /\ tags = tpre.tags

====
